---- MODULE Spec2Model ----
(***************************************************************************)
(* TaskCard Downloader (Gluon137/Grab-TC2): the run() pipeline of          *)
(* src/taskcard_downloader.py -- session start, page load, snapshots,      *)
(* extraction, export, save_card_content with its click-resolution of     *)
(* file candidates, download_file with its extension inference and path   *)
(* policy -- as a state machine, and the pure helpers as operators.        *)
(*                                                                         *)
(* Text is modelled by TLA+ strings (TLC evaluates Len, SubSeq and \o on   *)
(* them); response bodies are sequences of byte values.                    *)
(***************************************************************************)
EXTENDS Integers, Sequences, FiniteSets, TLC

(***************************************************************************)
(* Python string primitives used by the source.                            *)
(***************************************************************************)
Ch(s, i) == SubSeq(s, i, i)

CharsOf(s) == { Ch(s, i) : i \in 1..Len(s) }

LowerLetters == "abcdefghijklmnopqrstuvwxyz"

UpperLetters == "ABCDEFGHIJKLMNOPQRSTUVWXYZ"

Digits == "0123456789"

UpperChars == CharsOf(UpperLetters)

AlnumChars == CharsOf(LowerLetters) \cup CharsOf(UpperLetters) \cup CharsOf(Digits)

\* str.isalnum() of one character (ASCII part of the alphabet)
IsAlnumChar(c) == c \in AlnumChars

\* str.isalnum(): non-empty and every character alphanumeric
IsAlnum(s) == Len(s) > 0 /\ \A i \in 1..Len(s) : IsAlnumChar(Ch(s, i))

LowerChar(c) ==
    IF c \in UpperChars
    THEN Ch(LowerLetters, CHOOSE k \in 1..Len(UpperLetters) : Ch(UpperLetters, k) = c)
    ELSE c

RECURSIVE PyLower(_)
\* str.lower()
PyLower(s) ==
    IF Len(s) = 0 THEN ""
    ELSE IF Len(s) = 1 THEN LowerChar(s)
    ELSE PyLower(SubSeq(s, 1, Len(s) \div 2)) \o PyLower(SubSeq(s, Len(s) \div 2 + 1, Len(s)))

\* str.startswith / bytes.startswith
StartsWith(s, p) == Len(p) <= Len(s) /\ SubSeq(s, 1, Len(p)) = p

EndsWith(s, p) == Len(p) <= Len(s) /\ SubSeq(s, Len(s) - Len(p) + 1, Len(s)) = p

\* positions at which p occurs in s
Occurrences(s, p) == { i \in 1..(Len(s) - Len(p) + 1) : SubSeq(s, i, i + Len(p) - 1) = p }

\* `p in s`
Contains(s, p) == Occurrences(s, p) # {}

Min(S) == CHOOSE x \in S : \A y \in S : x <= y

Max(S) == CHOOSE x \in S : \A y \in S : x >= y

\* s.split(p)[-1]: what follows the last occurrence of p (all of s if none)
AfterLast(s, p) ==
    IF Contains(s, p) THEN SubSeq(s, Max(Occurrences(s, p)) + Len(p), Len(s)) ELSE s

\* p.join(s.split(p)[:-1]): what precedes the last occurrence of p
BeforeLast(s, p) ==
    IF Contains(s, p) THEN SubSeq(s, 1, Max(Occurrences(s, p)) - 1) ELSE ""

\* s.split(p)[1]: between the first and the second occurrence of p
SplitSecond(s, p) ==
    LET first == Min(Occurrences(s, p))
        rest  == SubSeq(s, first + Len(p), Len(s))
    IN  IF Contains(rest, p) THEN SubSeq(rest, 1, Min(Occurrences(rest, p)) - 1) ELSE rest

RECURSIVE RStrip(_, _)
\* str.rstrip(chars)
RStrip(s, chars) ==
    IF Len(s) > 0 /\ Ch(s, Len(s)) \in chars THEN RStrip(SubSeq(s, 1, Len(s) - 1), chars) ELSE s

RECURSIVE LStrip(_, _)
LStrip(s, chars) ==
    IF Len(s) > 0 /\ Ch(s, 1) \in chars THEN LStrip(SubSeq(s, 2, Len(s)), chars) ELSE s

\* str.strip(chars)
Strip(s, chars) == LStrip(RStrip(s, chars), chars)

\* s[:n] with Python's slice semantics: a negative n counts from the end
PySlicePrefix(s, n) ==
    IF n >= 0 THEN SubSeq(s, 1, IF n < Len(s) THEN n ELSE Len(s))
    ELSE SubSeq(s, 1, IF Len(s) + n > 0 THEN Len(s) + n ELSE 0)

RECURSIVE Repeat(_, _)
\* s * n
Repeat(s, n) ==
    IF n <= 0 THEN ""
    ELSE IF n % 2 = 0 THEN Repeat(s, n \div 2) \o Repeat(s, n \div 2)
    ELSE s \o Repeat(s, n - 1)

\* f"{n:03d}" and f"{n:02d}" and str(n) for the small n of the model
DigitStr(d) == Ch(Digits, d + 1)

RECURSIVE IntStr(_)
IntStr(n) == IF n < 10 THEN DigitStr(n) ELSE IntStr(n \div 10) \o DigitStr(n % 10)

ZeroPad(n, w) == Repeat("0", w - Len(IntStr(n))) \o IntStr(n)

(***************************************************************************)
(* urllib.parse as download_file uses it.  Scheme recognition is by the    *)
(* "://" separator; relative references are merged without dot-segment    *)
(* normalisation (the model's references contain none).                    *)
(***************************************************************************)
\* the prefix of s before the first character that is in chars
CutAt(s, chars) ==
    LET hits == { i \in 1..Len(s) : Ch(s, i) \in chars }
    IN  IF hits = {} THEN s ELSE SubSeq(s, 1, Min(hits) - 1)

HasAuthority(url) == Contains(url, "://")

AfterScheme(url) ==
    IF HasAuthority(url) THEN SubSeq(url, Min(Occurrences(url, "://")) + 3, Len(url)) ELSE url

NetLoc(url) == IF HasAuthority(url) THEN CutAt(AfterScheme(url), {"/", "?", "#"}) ELSE ""

\* urlparse(url).path
UrlPath(url) ==
    CutAt(SubSeq(AfterScheme(url), Len(NetLoc(url)) + 1, Len(AfterScheme(url))), {"?", "#"})

\* scheme://netloc of an absolute URL
Origin(url) == SubSeq(url, 1, Min(Occurrences(url, "://")) + 2) \o NetLoc(url)

\* urljoin(base, url)
UrlJoin(base, url) ==
    IF url = "" THEN base
    ELSE IF HasAuthority(url) THEN url
    ELSE IF StartsWith(url, "/") THEN Origin(base) \o url
    ELSE Origin(base) \o BeforeLast(UrlPath(base), "/") \o "/" \o url

\* download_file lines 400-401: the URL handed to requests.get
FetchUrl(boardUrl, url) == IF StartsWith(url, "http") THEN url ELSE UrlJoin(boardUrl, url)

(***************************************************************************)
(* Extension inference: download_file lines 406-424 and                    *)
(* get_file_extension_from_content.  A response is a record                *)
(* [ctype, cdisp: header values ("" when the header is absent),            *)
(*  content: the body as a sequence of byte values].                       *)
(* Python's None is the string "None": every extension the code derives   *)
(* from input is lower-cased, so the capital keeps it apart.               *)
(***************************************************************************)
PyNone == "None"

Truthy(x) == x # PyNone /\ x # ""

UrlExtMaxLen == 5

SigPrefixLen == 20

ZipScanLen == 1000

\* mime_extensions, in the dict's insertion order
MimeExtensions ==
    << <<"application/pdf", "pdf">>,
       <<"application/msword", "doc">>,
       <<"application/vnd.openxmlformats-officedocument.wordprocessingml.document", "docx">>,
       <<"application/vnd.ms-excel", "xls">>,
       <<"application/vnd.openxmlformats-officedocument.spreadsheetml.sheet", "xlsx">>,
       <<"application/vnd.ms-powerpoint", "ppt">>,
       <<"application/vnd.openxmlformats-officedocument.presentationml.presentation", "pptx">>,
       <<"text/plain", "txt">>,
       <<"text/html", "html">>,
       <<"text/css", "css">>,
       <<"application/javascript", "js">>,
       <<"application/json", "json">>,
       <<"application/xml", "xml">>,
       <<"text/xml", "xml">>,
       <<"image/jpeg", "jpg">>,
       <<"image/png", "png">>,
       <<"image/gif", "gif">>,
       <<"image/svg+xml", "svg">>,
       <<"application/zip", "zip">>,
       <<"application/x-rar-compressed", "rar">>,
       <<"application/x-7z-compressed", "7z">> >>

\* lines 352-355: the first table entry whose MIME type occurs in the header
ExtFromContentType(ctype) ==
    LET ct   == PyLower(ctype)
        hits == { k \in 1..Len(MimeExtensions) : Contains(ct, MimeExtensions[k][1]) }
    IN  IF hits = {} THEN PyNone ELSE MimeExtensions[Min(hits)][2]

\* lines 357-365: the text after the last '.' of the filename parameter
ExtFromDisposition(cdisp) ==
    IF Contains(cdisp, "filename=")
    THEN LET filename == Strip(SplitSecond(cdisp, "filename="), {"\"", "'"})
         IN  IF Contains(filename, ".") THEN PyLower(AfterLast(filename, ".")) ELSE PyNone
    ELSE PyNone

SigPDF == <<37, 80, 68, 70>>

SigZIP == <<80, 75, 3, 4>>

SigOLE == <<208, 207, 17, 224>>

SigPNG == <<137, 80, 78, 71>>

SigJPG == <<255, 216, 255>>

SigGIF == <<71, 73, 70, 56>>

SigHtmlTag == <<60, 104, 116, 109, 108>>

SigDoctype == <<60, 33, 68, 79, 67, 84, 89, 80, 69>>

MarkWord == <<119, 111, 114, 100, 47>>

MarkXl == <<120, 108, 47>>

MarkPpt == <<112, 112, 116, 47>>

\* lines 367-395: magic numbers of the body's prefix
ExtFromSignature(body) ==
    LET content == PySlicePrefix(body, SigPrefixLen)
        head    == PySlicePrefix(body, ZipScanLen)
    IN  IF StartsWith(content, SigPDF) THEN "pdf"
        ELSE IF StartsWith(content, SigZIP)
             THEN IF Contains(head, MarkWord) THEN "docx"
                  ELSE IF Contains(head, MarkXl) THEN "xlsx"
                  ELSE IF Contains(head, MarkPpt) THEN "pptx"
                  ELSE "zip"
        ELSE IF StartsWith(content, SigOLE) THEN "doc"
        ELSE IF StartsWith(content, SigPNG) THEN "png"
        ELSE IF StartsWith(content, SigJPG) THEN "jpg"
        ELSE IF StartsWith(content, SigGIF) THEN "gif"
        ELSE IF StartsWith(content, SigHtmlTag) \/ StartsWith(content, SigDoctype) THEN "html"
        ELSE PyNone

\* get_file_extension_from_content(response)
GetFileExtensionFromContent(resp) ==
    LET byType        == ExtFromContentType(resp.ctype)
        byDisposition == ExtFromDisposition(resp.cdisp)
    IN  IF byType # PyNone THEN byType
        ELSE IF byDisposition # PyNone THEN byDisposition
        ELSE ExtFromSignature(resp.content)

\* lines 409-416: the extension read off the URL's path
ExtFromUrl(url) ==
    LET url_path == UrlPath(url)
    IN  IF Contains(url_path, ".") /\ ~EndsWith(url_path, "/")
        THEN LET potential_ext == PyLower(AfterLast(url_path, "."))
             IN  IF Len(potential_ext) <= UrlExtMaxLen /\ IsAlnum(potential_ext)
                 THEN potential_ext ELSE PyNone
        ELSE PyNone

\* lines 406-424: file_extension as download_file settles it
FileExtension(url, resp) ==
    LET fromUrl  == ExtFromUrl(url)
        detected == IF Truthy(fromUrl) THEN fromUrl ELSE GetFileExtensionFromContent(resp)
    IN  IF Truthy(detected) THEN detected ELSE "bin"

(***************************************************************************)
(* Filename policy: save_card_content lines 530-539 (the stem) and         *)
(* download_file lines 426-436 (the path and its truncation).              *)
(***************************************************************************)
PathLimit == 255

TruncateTo == 200

\* the characters line 531 keeps besides alphanumerics
KeptPunctuation == {" ", ".", "_", "-"}

RECURSIVE KeepSafe(_)
\* "".join(c for c in file_text if c.isalnum() or c in (' ', '.', '_', '-'))
KeepSafe(text) ==
    IF Len(text) = 0 THEN ""
    ELSE IF Len(text) = 1
         THEN (IF IsAlnumChar(text) \/ text \in KeptPunctuation THEN text ELSE "")
    ELSE KeepSafe(SubSeq(text, 1, Len(text) \div 2))
         \o KeepSafe(SubSeq(text, Len(text) \div 2 + 1, Len(text)))

\* lines 531-533: the filtered text, right-stripped, or file_<i+1> when that is empty
\* (i is enumerate's 0-based index)
CleanedName(text, i) ==
    LET kept == RStrip(KeepSafe(text), {" "})
    IN  IF kept = "" THEN "file_" \o IntStr(i + 1) ELSE kept

\* lines 535-537: drop what follows the last '.'
DropExtension(name) == IF Contains(name, ".") THEN BeforeLast(name, ".") ELSE name

\* safe_filename as line 539 uses it
SafeFilename(text, i) == DropExtension(CleanedName(text, i))

\* line 539
FileFilenameBase(card_id, text, i) == "card_" \o ZeroPad(card_id, 3) \o "_" \o SafeFilename(text, i)

\* line 516
ImgFilenameBase(card_id, i) == "card_" \o ZeroPad(card_id, 3) \o "_img_" \o ZeroPad(i + 1, 2)

\* os.path.join(a, b) for a relative b
OsPathJoin(a, b) == IF a = "" \/ EndsWith(a, "/") THEN a \o b ELSE a \o "/" \o b

\* lines 433-434: filename_base[:max_base_length]
TruncatedBase(folder, filename_base, ext) ==
    PySlicePrefix(filename_base, TruncateTo - Len(folder) - Len(ext) - 2)

\* lines 426-436: the path download_file opens for writing
FilePath(folder, filename_base, ext) ==
    LET filepath == OsPathJoin(folder, filename_base \o "." \o ext)
    IN  IF Len(filepath) > PathLimit
        THEN OsPathJoin(folder, TruncatedBase(folder, filename_base, ext) \o "." \o ext)
        ELSE filepath

(***************************************************************************)
(* The state of one run of TaskCardDownloader.run().                       *)
(***************************************************************************)
VARIABLES
    pc,          \* position of run() / save_card_content
    driver,      \* self.driver: "none", "live" or "quit"
    cards,       \* cards_data as extract_card_data returned it
    ci,          \* save_card_content: position of the current card in cards
    ii,          \* enumerate index (1-based here) of the next image
    fi,          \* enumerate index (1-based here) of the current file candidate
    windows,     \* driver.window_handles, in the order the driver lists them
    focus,       \* the handle the driver is switched to
    locals,      \* original_window, all_windows and new_url of the click branch
    dl,          \* the arguments of the download_file call in progress, and where it returns
    cur,         \* what has been done for the image or file candidate in hand
    fetches,     \* the images and candidates download_file was called for so far
    writes,      \* every file download_file has written so far
    artifacts,   \* the other files written so far
    result,      \* what run() returned ("none" while it runs)
    abortedBy,   \* the step whose exception reached run()'s except clause
    records,     \* the export and the metadata records written so far, by path
    manifest,    \* the summaries run() has written, in order
    sniff,       \* one download_file call seen as extension inference
    naming,      \* one file candidate seen through the filename policy
    found,       \* card discovery of extract_card_data on one page
    extraction,  \* the card loop of extract_card_data over the discovered nodes
    content,     \* title and description of one card node
    probes,      \* the file-candidate probes of one card node
    gui          \* the front end of taskcard_gui.py: controls, worker threads, callbacks

pipeVars == <<pc, driver, cards, ci, ii, fi, windows, focus, locals, dl, cur,
              fetches, writes, artifacts, result, abortedBy, records, manifest>>

extractVars == <<found, extraction, content, probes>>

vars == <<pc, driver, cards, ci, ii, fi, windows, focus, locals, dl, cur,
          fetches, writes, artifacts, result, abortedBy, records, manifest,
          sniff, naming,
          found, extraction, content, probes, gui>>

(***************************************************************************)
(* Bounds of the model and the inputs drawn within them.                   *)
(***************************************************************************)
MaxCards == 2

MaxItems == 2

MaxNewTabs == 1

MaxLogTail == 2

\* self.url (the shape of the board URL of main(), line 679) and download_folder (line 25)
BoardUrl == "https://b.app/#/board/1?token=t"

DownloadFolder == "taskcard_download"

\* the 'type' values extract_card_data gives file candidates (lines 225-304)
TypeLink == "link"

TypeAttachment == "attachment"

TypePdfContainer == "taskcard_pdf_container"

TypeListItem == "taskcard_clickable"

TypeClickable == "clickable"

Cand(type, url, text) == [type |-> type, url |-> url, text |-> text, element |-> TRUE]

\* File candidates as lines 214-305 can produce them: anchors carry an http or
\* root-relative href; attachment buttons a data-url or "javascript:" + onclick;
\* preview containers and list items an empty URL and a document name; generic
\* clickables the first non-empty data attribute.
FileCandidates ==
    { Cand(TypeLink, "http://h/a.pdf", "notes.pdf"),
      Cand(TypeLink, "/f/b.pdf", "notes.docx"),
      Cand(TypeAttachment, "javascript:open(1)", "Datei"),
      Cand(TypeAttachment, "http://h/d", "Datei"),
      Cand(TypePdfContainer, "", "a.pdf"),
      Cand(TypeListItem, "", "b.pptx"),
      Cand(TypeClickable, "/dl/7", "File attachment") }

ImageUrls == { "http://h/i.png" }

RECURSIVE SeqsUpTo(_, _)
\* the sequences over S of length at most n
SeqsUpTo(S, n) ==
    IF n = 0 THEN { <<>> }
    ELSE LET shorter == SeqsUpTo(S, n - 1)
         IN  shorter \cup { Append(q, x) : q \in { r \in shorter : Len(r) = n - 1 }, x \in S }

RECURSIVE ItemCount(_)
\* the images and file candidates of a list of cards
ItemCount(cs) ==
    IF cs = <<>> THEN 0 ELSE Len(Head(cs).images) + Len(Head(cs).files) + ItemCount(Tail(cs))

CardBodies ==
    { b \in [ title : {"T"}, images : SeqsUpTo(ImageUrls, MaxItems),
              files : SeqsUpTo(FileCandidates, MaxItems) ] :
        Len(b.images) + Len(b.files) <= MaxItems }

\* the ids of the cards returned when MaxCards nodes were discovered: the
\* discovery positions (line 138) of the nodes whose extraction did not throw
\* (lines 313-315), in discovery order
IdLists ==
    { ids \in SeqsUpTo(1..MaxCards, MaxCards) :
        \A j \in 1..Len(ids) : \A k \in 1..Len(ids) : j < k => ids[j] < ids[k] }

\* the card lists extraction may return
CardLists ==
    UNION { { [ k \in 1..Len(bs) |-> [ id |-> ids[k], title |-> bs[k].title,
                                       images |-> bs[k].images, files |-> bs[k].files ] ] :
              ids \in { l \in IdLists : Len(l) = Len(bs) } } :
            bs \in { b \in SeqsUpTo(CardBodies, MaxCards) : ItemCount(b) <= MaxItems } }

\* a response as requests.get may deliver it
PipeResponses ==
    { [ ctype |-> "application/pdf", cdisp |-> "", content |-> SigPDF ],
      [ ctype |-> "application/octet-stream", cdisp |-> "", content |-> <<0, 1>> ] }

\* outcomes of one download_file call: the request raises (connection, timeout,
\* HTTP status), the write raises, or the response is written
DownloadOutcomes ==
    { [ kind |-> "http_error", resp |-> [ ctype |-> "", cdisp |-> "", content |-> <<>> ] ] }
    \cup { [ kind |-> "write_error", resp |-> [ ctype |-> "", cdisp |-> "", content |-> <<>> ] ] }
    \cup { [ kind |-> "written", resp |-> r ] : r \in PipeResponses }

TabUrls == { "https://taskcards.s3.eu.amazonaws.com/attachment/t1" }

(***************************************************************************)
(* The browser's performance log as get_log('performance') returns it:     *)
(* one record per entry, with the method and the response URL of its       *)
(* message.                                                                *)
(***************************************************************************)
LogWindow == 10

MethodResponse == "Network.responseReceived"

StorageUrlA == "https://taskcards.s3.eu.amazonaws.com/attachment/a"

StorageUrlB == "https://taskcards.s3.eu.amazonaws.com/attachment/b"

LogEvent(method, url) == [ method |-> method, url |-> url ]

OtherEvent == LogEvent(MethodResponse, "https://b.app/api/cards")

\* the entries that vary: storage responses, and a storage request (another method)
LogEvents ==
    { LogEvent(MethodResponse, StorageUrlA),
      LogEvent(MethodResponse, StorageUrlB),
      LogEvent("Network.requestWillBeSent", StorageUrlB) }

Filler(n) == [ k \in 1..n |-> OtherEvent ]

\* logs: short ones, and ones whose oldest entry is a storage response that is
\* the first of the last LogWindow entries until the tail pushes it out
LogLists ==
    { pre \o tail :
        pre \in { <<>>, <<LogEvent(MethodResponse, StorageUrlA)>> \o Filler(LogWindow - 1) },
        tail \in SeqsUpTo(LogEvents, MaxLogTail) }

\* logs[-10:]
RecentLogs(logs) == SubSeq(logs, IF Len(logs) > LogWindow THEN Len(logs) - LogWindow + 1 ELSE 1, Len(logs))

\* lines 590-592
IsStorageResponse(ev) ==
    /\ ev.method = MethodResponse
    /\ Contains(ev.url, "taskcards.s3")
    /\ Contains(ev.url, "attachment")

\* the positions of the storage responses in a list of entries
StorageHits(entries) == { k \in 1..Len(entries) : IsStorageResponse(entries[k]) }

\* lines 588-595: the loop runs over logs[-10:] from its first entry on and
\* stops at the first storage response; "" when there is none
LogSource(logs) ==
    LET recent == RecentLogs(logs)
    IN  IF StorageHits(recent) = {} THEN "" ELSE recent[Min(StorageHits(recent))].url

(***************************************************************************)
(* Bookkeeping of the candidate in hand.                                   *)
(***************************************************************************)
IdleCur ==
    [ card |-> 0, kind |-> "none", i |-> 0, url |-> "", text |-> "", type |-> "",
      base |-> "", ops |-> <<>>, fetched |-> <<>>, wrote |-> <<>>, log |-> <<>>,
      perf |-> <<>>, win0 |-> <<>>, focus0 |-> 0, done |-> FALSE ]

NewCur(card_id, kind, i, url, text, type, base) ==
    [ card |-> card_id, kind |-> kind, i |-> i, url |-> url, text |-> text, type |-> type,
      base |-> base, ops |-> <<>>, fetched |-> <<>>, wrote |-> <<>>, log |-> <<>>,
      perf |-> <<>>, win0 |-> windows, focus0 |-> focus, done |-> FALSE ]

IdleLocals == [ original_window |-> 0, all_windows |-> <<>>, new_url |-> "" ]

IdleDl == [ url |-> "", folder |-> "", base |-> "", ret |-> "" ]

SubFolder(name) == OsPathJoin(DownloadFolder, name)

SeqToSet(q) == { q[k] : k \in 1..Len(q) }

RemoveHandle(q, h) == SelectSeq(q, LAMBDA x : x # h)

(***************************************************************************)
(* run(), lines 611-676: set-up, page load, snapshots, extraction, export. *)
(***************************************************************************)
IdleSniff == [ stage |-> "idle", url |-> "", resp |-> [ ctype |-> "", cdisp |-> "", content |-> <<>> ], ext |-> PyNone ]

IdleStage == [ stage |-> "idle" ]

IdleNaming == [ stage |-> "idle", text |-> "", i |-> 0, root |-> "", ext |-> "", stem |-> "", path |-> "" ]

\* run() has not begun
PipeInit ==
    /\ pc = "start"
    /\ driver = "none"
    /\ cards = <<>>
    /\ ci = 0 /\ ii = 0 /\ fi = 0
    /\ windows = <<>>
    /\ focus = 0
    /\ locals = IdleLocals
    /\ dl = IdleDl
    /\ cur = IdleCur
    /\ fetches = {}
    /\ writes = {}
    /\ artifacts = {}
    /\ result = "none"
    /\ abortedBy = "none"
    /\ records = {}
    /\ manifest = <<>>

\* nothing of extract_card_data is looked at on its own
ExtractIdle ==
    /\ found = IdleStage
    /\ extraction = IdleStage
    /\ content = IdleStage
    /\ probes = IdleStage

Init ==
    /\ PipeInit
    /\ sniff = IdleSniff
    /\ naming = IdleNaming
    /\ ExtractIdle
    /\ gui = IdleStage

\* lines 671-676: the except clause returns False, the finally clause quits the driver
Abort(step) ==
    /\ pc' = "done"
    /\ result' = "False"
    /\ abortedBy' = step
    /\ driver' = IF driver = "live" THEN "quit" ELSE driver

\* an early `return False` of run() (lines 626, 646), through the finally clause
ReturnFalse(why) ==
    /\ pc' = "done"
    /\ result' = "False"
    /\ abortedBy' = why
    /\ driver' = IF driver = "live" THEN "quit" ELSE driver

\* line 617
CreateFolderStructure ==
    /\ pc = "start"
    /\ \/ pc' = "setup" /\ UNCHANGED <<driver, result, abortedBy>>
       \/ Abort("create_folder_structure")
    /\ UNCHANGED <<cards, ci, ii, fi, windows, focus, locals, dl, cur, fetches, writes,
                   artifacts, sniff, naming, extractVars, gui, records, manifest>>

\* line 618 (setup_driver re-raises, lines 54-59)
SetupDriver ==
    /\ pc = "setup"
    /\ \/ /\ pc' = "get"
          /\ driver' = "live"
          /\ windows' = <<1>>
          /\ focus' = 1
          /\ UNCHANGED <<result, abortedBy>>
       \/ Abort("setup_driver") /\ UNCHANGED <<windows, focus>>
    /\ UNCHANGED <<cards, ci, ii, fi, locals, dl, cur, fetches, writes, artifacts, sniff, naming, extractVars, gui, records, manifest>>

\* line 622
Navigate ==
    /\ pc = "get"
    /\ \/ pc' = "wait" /\ UNCHANGED <<driver, result, abortedBy>>
       \/ Abort("get")
    /\ UNCHANGED <<cards, ci, ii, fi, windows, focus, locals, dl, cur, fetches, writes,
                   artifacts, sniff, naming, extractVars, gui, records, manifest>>

\* lines 624-626 with wait_for_page_load (lines 75-98): the body appears and the
\* card wait succeeds or times out (True); the body wait times out (False, and
\* run() returns False); another driver error propagates
WaitForPageLoad ==
    /\ pc = "wait"
    /\ \/ pc' = "screenshot" /\ UNCHANGED <<driver, result, abortedBy>>
       \/ ReturnFalse("page_load_timeout")
       \/ Abort("wait_for_page_load")
    /\ UNCHANGED <<cards, ci, ii, fi, windows, focus, locals, dl, cur, fetches, writes,
                   artifacts, sniff, naming, extractVars, gui, records, manifest>>

\* lines 629-631
Screenshot ==
    /\ pc = "screenshot"
    /\ \/ /\ pc' = "page_source"
          /\ artifacts' = artifacts \cup {"page_screenshot.png"}
          /\ UNCHANGED <<driver, result, abortedBy>>
       \/ Abort("screenshot") /\ UNCHANGED artifacts
    /\ UNCHANGED <<cards, ci, ii, fi, windows, focus, locals, dl, cur, fetches, writes,
                   sniff, naming, extractVars, gui, records, manifest>>

\* lines 634-637
PageSource ==
    /\ pc = "page_source"
    /\ \/ /\ pc' = "extract"
          /\ artifacts' = artifacts \cup {"page_source.html"}
          /\ UNCHANGED <<driver, result, abortedBy>>
       \/ Abort("page_source") /\ UNCHANGED artifacts
    /\ UNCHANGED <<cards, ci, ii, fi, windows, focus, locals, dl, cur, fetches, writes,
                   sniff, naming, extractVars, gui, records, manifest>>

\* a test for the empty list that no list passes
NoCardsNever(cs) == FALSE

\* line 643: `if not cards_data`
NoCards(cs) == cs = <<>>

\* lines 641-646: extract_card_data returns a list (it catches every exception
\* itself, lines 313-318); an empty list ends the run
Extract ==
    /\ pc = "extract"
    /\ \E cs \in CardLists :
          /\ cards' = cs
          /\ IF NoCards(cs)
             THEN ReturnFalse("no_cards")
             ELSE pc' = "export" /\ UNCHANGED <<driver, result, abortedBy>>
    /\ UNCHANGED <<ci, ii, fi, windows, focus, locals, dl, cur, fetches, writes,
                   artifacts, sniff, naming, extractVars, gui, records, manifest>>

\* the card save_card_content is at (line 480)
CurCard == cards[ci]

\* lines 484 and 501
CardFile(card_id, suffix) == "card_" \o ZeroPad(card_id, 3) \o suffix

\* a file candidate written with every field it has, the element included
FileForJsonWithElement(f) == f

\* lines 466 and 492: the serializable copy of a file candidate
FileForJson(f) == [ url |-> f.url, text |-> f.text, type |-> f.type ]

\* lines 461-468 and 488-495: the serializable copy of a card (of the fields the
\* cards of this model carry)
CardForJson(card) ==
    [ id |-> card.id, title |-> card.title, images |-> card.images,
      files |-> [ k \in 1..Len(card.files) |-> FileForJson(card.files[k]) ] ]

\* lines 450-469
ConsolidatedData(cards_data) ==
    [ total_cards |-> Len(cards_data),
      cards |-> [ k \in 1..Len(cards_data) |-> CardForJson(cards_data[k]) ] ]

ExportPath == "taskcard_export.json"

MetadataPath(card_id) == OsPathJoin("metadata", CardFile(card_id, ".json"))

\* line 650, export_as_json (lines 447-476), and the entry into save_card_content,
\* whose loop (line 480) does nothing for an empty list
Export ==
    /\ pc = "export"
    /\ \/ /\ pc' = IF Len(cards) = 0 THEN "summary" ELSE "card_meta"
          /\ ci' = 1
          /\ artifacts' = artifacts \cup {ExportPath}
          /\ records' = records \cup { [ path |-> ExportPath, doc |-> ConsolidatedData(cards) ] }
          /\ UNCHANGED <<driver, result, abortedBy>>
       \/ Abort("export") /\ UNCHANGED <<ci, artifacts, records>>
    /\ UNCHANGED <<cards, ii, fi, windows, focus, locals, dl, cur, fetches, writes,
                   sniff, naming, extractVars, gui, manifest>>

(***************************************************************************)
(* save_card_content, lines 478-609, and download_file, lines 397-445.     *)
(***************************************************************************)
\* lines 483-498: the metadata record; a failing open/dump propagates to run()
CardMetadata ==
    /\ pc = "card_meta"
    /\ \/ /\ pc' = "card_text"
          /\ artifacts' = artifacts \cup { MetadataPath(CurCard.id) }
          /\ records' = records \cup { [ path |-> MetadataPath(CurCard.id),
                                         doc |-> CardForJson(CurCard) ] }
          /\ UNCHANGED <<driver, result, abortedBy>>
       \/ Abort("metadata") /\ UNCHANGED <<artifacts, records>>
    /\ UNCHANGED <<cards, ci, ii, fi, windows, focus, locals, dl, cur, fetches, writes,
                   sniff, naming, extractVars, gui, manifest>>

\* lines 500-512: the text dump
CardText ==
    /\ pc = "card_text"
    /\ \/ /\ pc' = "images"
          /\ ii' = 1
          /\ artifacts' = artifacts \cup { OsPathJoin("cards", CardFile(CurCard.id, "_content.txt")) }
          /\ UNCHANGED <<driver, result, abortedBy>>
       \/ Abort("text_dump") /\ UNCHANGED <<ii, artifacts>>
    /\ UNCHANGED <<cards, ci, fi, windows, focus, locals, dl, cur, fetches, writes,
                   sniff, naming, extractVars, gui, records, manifest>>

\* lines 515-517: the next image is handed to download_file
ImageDownload ==
    /\ pc = "images"
    /\ ii <= Len(CurCard.images)
    /\ cur' = NewCur(CurCard.id, "image", ii - 1, CurCard.images[ii], "", "image",
                     ImgFilenameBase(CurCard.id, ii - 1))
    /\ dl' = [ url |-> CurCard.images[ii], folder |-> SubFolder("images"),
               base |-> ImgFilenameBase(CurCard.id, ii - 1), ret |-> "images" ]
    /\ ii' = ii + 1
    /\ pc' = "download"
    /\ UNCHANGED <<driver, cards, ci, fi, windows, focus, locals, fetches, writes, artifacts,
                   result, abortedBy, sniff, naming, extractVars, gui, records, manifest>>

\* line 520: the images are done, the file loop starts
ImagesDone ==
    /\ pc = "images"
    /\ ii > Len(CurCard.images)
    /\ pc' = "files"
    /\ fi' = 1
    /\ cur' = IdleCur
    /\ UNCHANGED <<driver, cards, ci, ii, windows, focus, locals, dl, fetches, writes,
                   artifacts, result, abortedBy, sniff, naming, extractVars, gui, records, manifest>>

CurFile == CurCard.files[fi]

\* a test for the scheme that no URL passes
IsPseudoUrlNever(url) == FALSE

\* line 526
IsPseudoUrl(url) == StartsWith(url, "javascript:")

\* line 542: a type extract_card_data never assigns
IsDirectAttachment(f) == f.type = "taskcard_attachment" /\ f.url # ""

\* line 546
ClickTypes == { TypeAttachment, TypeClickable, TypeListItem, TypePdfContainer }

\* the click branch taken for whatever carries an element, anchors included
IsClickResolvedAnyElement(f) == f.element

IsClickResolved(f) == f.type \in ClickTypes /\ f.element

FileCur == NewCur(CurCard.id, "file", fi - 1, CurFile.url, CurFile.text, CurFile.type,
                  FileFilenameBase(CurCard.id, CurFile.text, fi - 1))

\* the iteration ends and takes the rest of the card's file loop with it
EndCandidateEndsLoop(c) ==
    /\ cur' = [ c EXCEPT !.done = TRUE ]
    /\ fi' = Len(CurCard.files) + 1
    /\ pc' = "files"
    /\ locals' = IdleLocals

\* the iteration of the file loop ends: on to the next candidate
EndCandidate(c) ==
    /\ cur' = [ c EXCEPT !.done = TRUE ]
    /\ fi' = fi + 1
    /\ pc' = "files"
    /\ locals' = IdleLocals

\* lines 526-528: `continue` on a javascript: URL, with an info line
SkipJavascript ==
    /\ pc = "files"
    /\ fi <= Len(CurCard.files)
    /\ IsPseudoUrl(CurFile.url)
    /\ EndCandidate([ FileCur EXCEPT !.log = <<"info">> ])
    /\ UNCHANGED <<driver, cards, ci, ii, windows, focus, dl, fetches, writes, artifacts,
                   result, abortedBy, sniff, naming, extractVars, gui, records, manifest>>

\* lines 542-545 and 607-609: download_file(file_url, documents, base) straight away
StartDirect ==
    /\ pc = "files"
    /\ fi <= Len(CurCard.files)
    /\ ~IsPseudoUrl(CurFile.url)
    /\ IsDirectAttachment(CurFile) \/ ~IsClickResolved(CurFile)
    /\ cur' = FileCur
    /\ dl' = [ url |-> CurFile.url, folder |-> SubFolder("documents"), base |-> FileCur.base,
               ret |-> "file_end" ]
    /\ pc' = "download"
    /\ UNCHANGED <<driver, cards, ci, ii, fi, windows, focus, locals, fetches, writes, artifacts,
                   result, abortedBy, sniff, naming, extractVars, gui, records, manifest>>

\* lines 546-549: the click branch is entered
StartClick ==
    /\ pc = "files"
    /\ fi <= Len(CurCard.files)
    /\ ~IsPseudoUrl(CurFile.url)
    /\ ~IsDirectAttachment(CurFile)
    /\ IsClickResolved(CurFile)
    /\ cur' = [ FileCur EXCEPT !.log = <<"info">> ]
    /\ pc' = "scroll"
    /\ UNCHANGED <<driver, cards, ci, ii, fi, windows, focus, locals, dl, fetches, writes,
                   artifacts, result, abortedBy, sniff, naming, extractVars, gui, records, manifest>>

\* the element belongs to the page in the first tab: a script or click on it
\* succeeds only while the driver is switched to that tab and the tab is open
ElementReachable == focus = 1 /\ focus \in SeqToSet(windows)

Did(op) == [ cur EXCEPT !.ops = Append(@, op) ]

\* line 552: execute_script(scrollIntoView)
Scroll ==
    /\ pc = "scroll"
    /\ cur' = Did("scroll")
    /\ \/ ElementReachable /\ pc' = "click"
       \/ pc' = "except"
    /\ UNCHANGED <<driver, cards, ci, ii, fi, windows, focus, locals, dl, fetches, writes,
                   artifacts, result, abortedBy, sniff, naming, extractVars, gui, records, manifest>>

\* a handle no tab has had: closed tabs were the driver's focus when they closed
FreshHandle == Max(SeqToSet(windows) \cup {focus}) + 1

\* line 556: element.click(); the page may open tabs in response
Click ==
    /\ pc = "click"
    /\ cur' = Did("click")
    /\ \/ /\ ElementReachable
          /\ \E k \in 0..MaxNewTabs :
                windows' = windows \o [ j \in 1..k |-> FreshHandle + j - 1 ]
          /\ pc' = "handles"
       \/ pc' = "except" /\ UNCHANGED windows
    /\ UNCHANGED <<driver, cards, ci, ii, fi, focus, locals, dl, fetches, writes,
                   artifacts, result, abortedBy, sniff, naming, extractVars, gui, records, manifest>>

\* lines 560-563 and 578-584: current_window_handle, window_handles, and the branch
ReadHandles ==
    /\ pc = "handles"
    /\ cur' = Did("window_handles")
    /\ \/ /\ focus \in SeqToSet(windows)
          /\ locals' = [ original_window |-> focus, all_windows |-> windows, new_url |-> "" ]
          /\ pc' = IF Len(windows) > 1 THEN "switch"
                   ELSE IF cur.type = TypePdfContainer THEN "get_log" ELSE "fallback"
       \/ pc' = "except" /\ UNCHANGED locals
    /\ UNCHANGED <<driver, cards, ci, ii, fi, windows, focus, dl, fetches, writes,
                   artifacts, result, abortedBy, sniff, naming, extractVars, gui, records, manifest>>

\* lines 565-566: the first handle of all_windows that is not original_window
NewTab == locals.all_windows[Min({ k \in 1..Len(locals.all_windows) :
                                    locals.all_windows[k] # locals.original_window })]

\* line 567: switch_to.window(window_handle)
SwitchToTab ==
    /\ pc = "switch"
    /\ cur' = Did("switch_to")
    /\ \/ focus' = NewTab /\ pc' = "tab_url"
       \/ pc' = "except" /\ UNCHANGED focus
    /\ UNCHANGED <<driver, cards, ci, ii, fi, windows, locals, dl, fetches, writes,
                   artifacts, result, abortedBy, sniff, naming, extractVars, gui, records, manifest>>

\* lines 568-572: current_url of the tab, handed to download_file
ReadTabUrl ==
    /\ pc = "tab_url"
    /\ \/ \E u \in TabUrls :
             /\ locals' = [ locals EXCEPT !.new_url = u ]
             /\ cur' = [ Did("current_url") EXCEPT !.log = Append(@, "info") ]
             /\ dl' = [ url |-> u, folder |-> SubFolder("documents"), base |-> cur.base,
                        ret |-> "close_tab" ]
             /\ pc' = "download"
       \/ pc' = "except" /\ cur' = Did("current_url") /\ UNCHANGED <<locals, dl>>
    /\ UNCHANGED <<driver, cards, ci, ii, fi, windows, focus, fetches, writes,
                   artifacts, result, abortedBy, sniff, naming, extractVars, gui, records, manifest>>

\* line 575: driver.close() closes the tab the driver is switched to
CloseTab ==
    /\ pc = "close_tab"
    /\ cur' = Did("close")
    /\ \/ windows' = RemoveHandle(windows, focus) /\ pc' = "switch_back"
       \/ pc' = "except" /\ UNCHANGED windows
    /\ UNCHANGED <<driver, cards, ci, ii, fi, focus, locals, dl, fetches, writes,
                   artifacts, result, abortedBy, sniff, naming, extractVars, gui, records, manifest>>

\* lines 576-577: switch_to.window(original_window), then break: the iteration ends
SwitchBack ==
    /\ pc = "switch_back"
    /\ \/ /\ locals.original_window \in SeqToSet(windows)
          /\ focus' = locals.original_window
          /\ EndCandidate(Did("switch_back"))
       \/ pc' = "except" /\ cur' = Did("switch_back") /\ UNCHANGED <<focus, fi, locals>>
    /\ UNCHANGED <<driver, cards, ci, ii, windows, dl, fetches, writes,
                   artifacts, result, abortedBy, sniff, naming, extractVars, gui, records, manifest>>

\* lines 584-597: for a preview container, get_log('performance') and the scan of
\* its last entries; whatever is raised in there is swallowed (`except: pass`)
GetLog ==
    /\ pc = "get_log"
    /\ \/ \E logs \in LogLists :
             /\ cur' = [ Did("get_log") EXCEPT
                           !.perf = logs,
                           !.log = IF LogSource(logs) # "" THEN Append(@, "info") ELSE @ ]
             /\ IF LogSource(logs) # ""
                THEN /\ dl' = [ url |-> LogSource(logs), folder |-> SubFolder("documents"),
                                base |-> cur.base, ret |-> "fallback" ]
                     /\ pc' = "download"
                ELSE pc' = "fallback" /\ UNCHANGED dl
       \/ pc' = "fallback" /\ cur' = Did("get_log") /\ UNCHANGED dl
    /\ UNCHANGED <<driver, cards, ci, ii, fi, windows, focus, locals, fetches, writes,
                   artifacts, result, abortedBy, sniff, naming, extractVars, gui, records, manifest>>

\* lines 599-601: `if file_url: download_file(file_url, ...)`; the iteration ends
Fallback ==
    /\ pc = "fallback"
    /\ IF cur.url # ""
       THEN /\ dl' = [ url |-> cur.url, folder |-> SubFolder("documents"), base |-> cur.base,
                       ret |-> "file_end" ]
            /\ pc' = "download"
            /\ UNCHANGED <<cur, fi, locals>>
       ELSE EndCandidate(cur) /\ UNCHANGED dl
    /\ UNCHANGED <<driver, cards, ci, ii, windows, focus, fetches, writes,
                   artifacts, result, abortedBy, sniff, naming, extractVars, gui, records, manifest>>

\* lines 603-606: the handler of the click branch: a warning, then
\* download_file(file_url, ...) whatever file_url is
ExceptHandler ==
    /\ pc = "except"
    /\ cur' = [ cur EXCEPT !.log = Append(@, "warning") ]
    /\ dl' = [ url |-> cur.url, folder |-> SubFolder("documents"), base |-> cur.base,
               ret |-> "file_end" ]
    /\ pc' = "download"
    /\ UNCHANGED <<driver, cards, ci, ii, fi, windows, focus, locals, fetches, writes,
                   artifacts, result, abortedBy, sniff, naming, extractVars, gui, records, manifest>>

\* download_file(url, folder, filename_base), lines 397-445: the request is
\* issued for the joined URL; a response is written under the inferred extension;
\* every exception ends in `return False`
Download ==
    /\ pc = "download"
    /\ \E o \in DownloadOutcomes :
          LET req  == FetchUrl(BoardUrl, dl.url)
              path == FilePath(dl.folder, dl.base, FileExtension(req, o.resp))
              c    == [ cur EXCEPT
                          !.fetched = Append(@, [ arg |-> dl.url, url |-> req ]),
                          !.wrote = IF o.kind = "written" THEN Append(@, path) ELSE @,
                          !.log = Append(@, IF o.kind = "written" THEN "info" ELSE "error") ]
          IN  /\ fetches' = fetches \cup { [ card |-> cur.card, kind |-> cur.kind, i |-> cur.i ] }
              /\ writes' = IF o.kind = "written"
                           THEN writes \cup { [ path |-> path, card |-> cur.card,
                                                kind |-> cur.kind, i |-> cur.i ] }
                           ELSE writes
              /\ IF dl.ret = "file_end" THEN EndCandidate(c)
                 ELSE IF dl.ret = "images"
                      THEN /\ cur' = [ c EXCEPT !.done = TRUE ]
                           /\ pc' = "images"
                           /\ UNCHANGED <<fi, locals>>
                 ELSE cur' = c /\ pc' = dl.ret /\ UNCHANGED <<fi, locals>>
    /\ dl' = IdleDl
    /\ UNCHANGED <<driver, cards, ci, ii, windows, focus, artifacts, result, abortedBy,
                   sniff, naming, extractVars, gui, records, manifest>>

\* lines 480 and 520: the card's candidates are exhausted; the next card, or back in run()
FilesDone ==
    /\ pc = "files"
    /\ fi > Len(CurCard.files)
    /\ IF ci < Len(cards)
       THEN ci' = ci + 1 /\ pc' = "card_meta"
       ELSE pc' = "summary" /\ UNCHANGED ci
    /\ cur' = IdleCur
    /\ UNCHANGED <<driver, cards, ii, fi, windows, focus, locals, dl, fetches, writes,
                   artifacts, result, abortedBy, sniff, naming, extractVars, gui, records, manifest>>

\* a summary that counts the cards the page can hold
SummaryDataFixedCount(cards_data) ==
    [ total_cards |-> MaxCards,
      cards_summary |-> [ k \in 1..Len(cards_data) |->
                            [ id |-> cards_data[k].id, title |-> cards_data[k].title ] ] ]

\* lines 655-660
SummaryData(cards_data) ==
    [ total_cards |-> Len(cards_data),
      cards_summary |-> [ k \in 1..Len(cards_data) |->
                            [ id |-> cards_data[k].id, title |-> cards_data[k].title ] ] ]

\* line 662
SummaryPath == "download_summary.json"

\* lines 656-669: the manifest, then `return True` through the finally clause
Summary ==
    /\ pc = "summary"
    /\ \/ /\ pc' = "done"
          /\ result' = "True"
          /\ driver' = "quit"
          /\ artifacts' = artifacts \cup {SummaryPath}
          /\ manifest' = Append(manifest, SummaryData(cards))
          /\ UNCHANGED abortedBy
       \/ Abort("summary") /\ UNCHANGED <<artifacts, manifest>>
    /\ UNCHANGED <<cards, ci, ii, fi, windows, focus, locals, dl, cur, fetches, writes,
                   sniff, naming, extractVars, gui, records>>

Next ==
    \/ CreateFolderStructure
    \/ SetupDriver
    \/ Navigate
    \/ WaitForPageLoad
    \/ Screenshot
    \/ PageSource
    \/ Extract
    \/ Export
    \/ CardMetadata
    \/ CardText
    \/ ImageDownload
    \/ ImagesDone
    \/ SkipJavascript
    \/ StartDirect
    \/ StartClick
    \/ Scroll
    \/ Click
    \/ ReadHandles
    \/ SwitchToTab
    \/ ReadTabUrl
    \/ CloseTab
    \/ SwitchBack
    \/ GetLog
    \/ Fallback
    \/ ExceptHandler
    \/ Download
    \/ FilesDone
    \/ Summary

Spec == Init /\ [][Next]_vars

(***************************************************************************)
(* Properties of the attachment resolution in save_card_content.  They are  *)
(* read off `cur` in the state that ends a candidate's iteration.           *)
(***************************************************************************)
FileDone == cur.kind = "file" /\ cur.done

OpsDone == SeqToSet(cur.ops)

CarriesRealUrl == cur.url # "" /\ ~StartsWith(cur.url, "javascript:")

\* C1 as stated: a direct_link candidate, and a candidate of any other kind that
\* carries a non-empty, non-javascript URL, is fetched from that URL as-is, with
\* no scroll, click, tab switch or log inspection.
C1_CarriedUrlFetchedDirectly ==
    (FileDone /\ (cur.type = TypeLink \/ CarriesRealUrl))
        => /\ cur.ops = <<>>
           /\ Len(cur.fetched) = 1
           /\ cur.fetched[1].arg = cur.url

\* C1 amended: a direct_link candidate is fetched once, from its own URL (an
\* absolute URL unchanged), without any driver call; a candidate of another kind
\* that carries a real URL is scrolled to and clicked first, and its own URL is
\* fetched only when no tab was switched to or a driver call failed.
C1_LinkDirectOthersClickFirst ==
    /\ (FileDone /\ cur.type = TypeLink)
          => /\ cur.ops = <<>>
             /\ Len(cur.fetched) = 1
             /\ cur.fetched[1].arg = cur.url
             /\ StartsWith(cur.url, "http") => cur.fetched[1].url = cur.url
    /\ (FileDone /\ cur.type # TypeLink /\ CarriesRealUrl)
          => /\ cur.ops # <<>>
             /\ cur.ops[1] = "scroll"
             /\ (\E k \in 1..Len(cur.fetched) : cur.fetched[k].arg = cur.url)
                   => ("switch_to" \notin OpsDone \/ "warning" \in SeqToSet(cur.log))

\* a root-relative anchor has been fetched and written, right after a button of
\* the same card that carries a data-url
C1_Witness ==
    /\ FileDone
    /\ cur.type = TypeLink
    /\ ~StartsWith(cur.url, "http")
    /\ cur.wrote # <<>>
    /\ cur.i >= 1
    /\ CurCard.files[cur.i].type = TypeAttachment
    /\ CurCard.files[cur.i].url # ""
    /\ ~StartsWith(CurCard.files[cur.i].url, "javascript:")

\* C2: when the iteration of a click-resolved candidate ends, whatever failed,
\* the driver is switched to the tab it was on before and the open tabs are those
\* that were open before the click.
C2_TabsRestoredAfterClick ==
    (FileDone /\ "click" \in OpsDone) => (focus = cur.focus0 /\ windows = cur.win0)

\* the most recent storage response among the last LogWindow entries
MostRecentStorageUrl(logs) == RecentLogs(logs)[Max(StorageHits(RecentLogs(logs)))].url

\* C3: the log is read only for a preview container whose click opened no tab,
\* and the source fetched is the most recent storage response of the window.
C3_MostRecentLogResponseUsed ==
    /\ (cur.kind = "file" /\ "get_log" \in OpsDone)
          => (cur.type = TypePdfContainer /\ "switch_to" \notin OpsDone)
    /\ (FileDone /\ "get_log" \in OpsDone /\ StorageHits(RecentLogs(cur.perf)) # {})
          => /\ cur.fetched # <<>>
             /\ cur.fetched[1].arg = MostRecentStorageUrl(cur.perf)

\* C4: for a candidate without URL, download_file is never called with the empty
\* URL: every fetch made for it is of a source that click resolution yielded.
C4_EmptyUrlNeverFetched ==
    (FileDone /\ cur.url = "")
        => \A k \in 1..Len(cur.fetched) : cur.fetched[k].arg # ""

\* C5: a candidate whose URL starts with javascript: is, as soon as it is taken
\* up, finished with no driver call, no fetch, nothing written and only an info
\* log line, and the file loop stands at the next candidate with the run alive.
C5_JavascriptSkipped ==
    (cur.kind = "file" /\ StartsWith(cur.url, "javascript:"))
        => /\ cur.done
           /\ cur.ops = <<>>
           /\ cur.fetched = <<>>
           /\ cur.wrote = <<>>
           /\ cur.log = <<"info">>
           /\ pc = "files"
           /\ fi = cur.i + 2
           /\ result = "none" /\ abortedBy = "none"

\* a javascript: candidate has been skipped and another candidate of the card follows
C5_Witness ==
    /\ FileDone
    /\ StartsWith(cur.url, "javascript:")
    /\ fi <= Len(CurCard.files)

\* C9: no two file candidates of one card are written to the same path.
C9_NoSharedPath ==
    \A w1 \in writes : \A w2 \in writes :
        (w1.kind = "file" /\ w2.kind = "file" /\ w1.card = w2.card /\ w1.i # w2.i)
            => w1.path # w2.path

\* C10: once the driver exists, run() ends early only for want of cards: no
\* exception of a later step reaches its except clause.
C10_OnlySessionStartTerminates ==
    (pc = "done" /\ driver # "none") => abortedBy \in {"none", "no_cards"}

(***************************************************************************)
(* Properties of run() and save_card_content as a whole.                    *)
(***************************************************************************)
\* run() is inside save_card_content
InSaveCardContent ==
    pc \notin { "start", "setup", "get", "wait", "screenshot", "page_source", "extract",
                "export", "summary", "done" }

HasRealUrl(f) == f.url # "" /\ ~StartsWith(f.url, "javascript:")

\* download_file has been called for every image of the card at position k and
\* for every file candidate of it that carries a real URL
AllAttempted(k) ==
    /\ \A i \in 1..Len(cards[k].images) :
          [ card |-> cards[k].id, kind |-> "image", i |-> i - 1 ] \in fetches
    /\ \A j \in 1..Len(cards[k].files) :
          HasRealUrl(cards[k].files[j])
              => [ card |-> cards[k].id, kind |-> "file", i |-> j - 1 ] \in fetches

\* downloads of the card with this id that failed, and downloads of it that were written
FailedFor(id) == { f \in fetches : f.card = id /\ \A w \in writes : ~(w.card = id /\ w.kind = f.kind /\ w.i = f.i) }

\* C11: whatever fetches and click steps failed, once save_card_content has left
\* a card, download_file has been called for each of its images and for each of
\* its candidates that carries a real URL, and when save_card_content has
\* returned this is so for every card; no failed fetch or click ends the run.
C11_LaterDownloadsStillAttempted ==
    /\ \A k \in 1..Len(cards) :
          (pc = "summary" \/ (InSaveCardContent /\ k < ci)) => AllAttempted(k)
    /\ (InSaveCardContent /\ pc = "files" /\ cur.kind = "file" /\ cur.done)
          => \A j \in 1..(fi - 1) :
                HasRealUrl(CurCard.files[j])
                    => [ card |-> CurCard.id, kind |-> "file", i |-> j - 1 ] \in fetches
    /\ abortedBy \in { "none", "create_folder_structure", "setup_driver", "get",
                       "wait_for_page_load", "page_load_timeout", "screenshot", "page_source",
                       "no_cards", "export", "metadata", "text_dump", "summary" }

\* save_card_content has returned, the first download of the first card failed
\* and a later download was written
C11_Witness ==
    /\ pc = "summary"
    /\ \E f \in FailedFor(cards[1].id) :
          /\ f.i = 0
          /\ \E w \in writes : w.card > f.card \/ (w.card = f.card /\ w.i > f.i)

\* C14: a run is never ended by the timeout of the wait for page readiness.
C14_ReadinessTimeoutContinues ==
    abortedBy # "page_load_timeout"

\* C15: once extraction has returned no cards, run() has returned False, the page
\* source and the screenshot are the only files written, and nothing was fetched.
C15_EmptyResult ==
    (cards = <<>> /\ abortedBy \in {"none", "no_cards"}
       /\ pc \notin { "start", "setup", "get", "wait", "screenshot", "page_source", "extract" })
        => /\ pc = "done"
           /\ result = "False"
           /\ artifacts = { "page_screenshot.png", "page_source.html" }
           /\ records = {}
           /\ writes = {}
           /\ fetches = {}

\* extraction has returned the empty list
C15_Witness ==
    /\ pc = "done"
    /\ abortedBy = "no_cards"
    /\ cards = <<>>
    /\ driver = "quit"

\* C22: the manifest is on disk only when run() is over with the export, and every
\* card's metadata record and text dump, written and every download of every card
\* attempted and no download in progress; run() returns True only with the
\* manifest written; and the manifest's total_cards is the number of cards in the
\* export and the number of entries of its cards_summary.
C22_ManifestWrittenLast ==
    /\ SummaryPath \in artifacts
          => /\ pc = "done"
             /\ dl = IdleDl
             /\ ExportPath \in artifacts
             /\ \A k \in 1..Len(cards) :
                   /\ MetadataPath(cards[k].id) \in artifacts
                   /\ OsPathJoin("cards", CardFile(cards[k].id, "_content.txt")) \in artifacts
                   /\ AllAttempted(k)
    /\ result = "True" => (SummaryPath \in artifacts /\ manifest # <<>>)
    /\ manifest # <<>>
          => /\ SummaryPath \in artifacts
             /\ Len(manifest) = 1
             /\ \A m \in 1..Len(manifest) : manifest[m].total_cards = Len(manifest[m].cards_summary)
             /\ \E r \in records : r.path = ExportPath
             /\ \A r \in records :
                   r.path = ExportPath
                       => /\ manifest[1].total_cards = Len(r.doc.cards)
                          /\ manifest[1].total_cards = r.doc.total_cards

\* the manifest of a run over one card, one of whose downloads failed
C22_Witness ==
    /\ result = "True"
    /\ manifest # <<>>
    /\ Len(cards) = 1
    /\ FailedFor(cards[1].id) # {}
    /\ writes # {}

\* C23: whatever the scroll, the click, the tab steps and the log read do, one
\* file candidate is fetched at most once and at most one file is written for it.
C23_AtMostOneFetchPerCandidate ==
    cur.kind = "file"
        => /\ Len(cur.fetched) <= 1
           /\ Len(cur.wrote) <= 1

\* the position in cards of the card with this id
PositionOf(id) == CHOOSE k \in 1..Len(cards) : cards[k].id = id

\* an entry of a JSON document carries the images of the card in order and, for
\* each candidate in order, its url, text and type and nothing else
CarriesCard(entry, card) ==
    /\ entry.images = card.images
    /\ Len(entry.files) = Len(card.files)
    /\ \A j \in 1..Len(card.files) :
          entry.files[j] = [ url |-> card.files[j].url, text |-> card.files[j].text,
                             type |-> card.files[j].type ]

\* C17: the export's entries are those of the cards in memory, in order, and
\* every metadata record written is that of its card and equals the export's
\* entry for the card.
C17_ExportRoundTrip ==
    \A r \in records :
        IF r.path = ExportPath
        THEN /\ Len(r.doc.cards) = Len(cards)
             /\ \A k \in 1..Len(cards) : CarriesCard(r.doc.cards[k], cards[k])
        ELSE /\ \E k \in 1..Len(cards) : r.path = MetadataPath(cards[k].id) /\ r.doc.id = cards[k].id
             /\ CarriesCard(r.doc, cards[PositionOf(r.doc.id)])
             /\ \A x \in records :
                   x.path = ExportPath => x.doc.cards[PositionOf(r.doc.id)] = r.doc

\* the export and the metadata record of a second card with a preview container
\* have been written
C17_Witness ==
    /\ \E r \in records : r.path = ExportPath
    /\ \E r \in records :
          /\ r.path # ExportPath
          /\ r.doc.id = 2
          /\ r.doc.files # <<>>
          /\ r.doc.files[1].type = TypePdfContainer

(***************************************************************************)
(* Extension inference on its own: one download_file call, lines 397-424,  *)
(* over a set of URLs and responses.                                        *)
(***************************************************************************)
SniffUrls ==
    { "http://h/a.pdf", "https://h.io/d/x.PPTX?y=1.z", "http://h/v1.2/file", "http://h/dl",
      "http://h/a.", "http://h/a.toolong", "/f/b.docx", "" }

SniffContentTypes == { "", "application/pdf", "Text/HTML; charset=utf-8", "application/octet-stream" }

SniffDispositions ==
    { "", "attachment", "attachment; filename=\"a.DOCX\"", "attachment; filename=\"report.\"",
      "attachment; filename=noext" }

SniffBodies ==
    { <<>>, SigPDF \o <<45, 49>>, SigZIP \o <<0>> \o MarkPpt, SigZIP, SigPNG, <<104, 105>> }

SniffInit ==
    /\ PipeInit
    /\ naming = IdleNaming
    /\ ExtractIdle
    /\ gui = IdleStage
    /\ sniff \in [ stage : {"request"}, url : SniffUrls,
                   resp : [ ctype : SniffContentTypes, cdisp : SniffDispositions,
                            content : SniffBodies ],
                   ext : {PyNone} ]

\* lines 400-424: the URL is joined, the response arrives, the extension is settled
SniffDownload ==
    /\ sniff.stage = "request"
    /\ sniff' = [ sniff EXCEPT !.stage = "named",
                               !.ext = FileExtension(FetchUrl(BoardUrl, sniff.url), sniff.resp) ]
    /\ UNCHANGED <<pipeVars, naming, extractVars, gui>>

SniffNext == SniffDownload

SpecSniff == SniffInit /\ [][SniffNext]_vars

\* the evidence of the four tiers for a request, in the order of their priority
Tiers(url, resp) ==
    << ExtFromUrl(url), ExtFromContentType(resp.ctype), ExtFromDisposition(resp.cdisp),
       ExtFromSignature(resp.content) >>

\* the extension of the first tier that yields one, 'bin' when none does
FirstOfTiers(url, resp) ==
    LET usable == { k \in 1..Len(Tiers(url, resp)) : Truthy(Tiers(url, resp)[k]) }
    IN  IF usable = {} THEN "bin" ELSE Tiers(url, resp)[Min(usable)]

\* C6: the extension download_file settles on is that of the first tier, in the
\* order URL suffix, Content-Type, Content-Disposition suffix, byte signature,
\* that yields an extension, and 'bin' when no tier yields one.
C6_FiveTierPriority ==
    sniff.stage = "named"
        => sniff.ext = FirstOfTiers(FetchUrl(BoardUrl, sniff.url), sniff.resp)

\* C21: download_file settles on 'bin' only when the URL suffix, the
\* Content-Type table, the Content-Disposition suffix and the byte signature
\* all yield no extension; when the first three yield none that is usable, a
\* known byte signature decides the extension.
C21_BinOnlyLastResort ==
    sniff.stage = "named"
        => LET tiers == Tiers(FetchUrl(BoardUrl, sniff.url), sniff.resp)
           IN  /\ sniff.ext = "bin" => \A k \in 1..4 : ~ Truthy(tiers[k])
               /\ ((\A k \in 1..3 : ~ Truthy(tiers[k])) /\ Truthy(tiers[4]))
                     => sniff.ext = tiers[4]

(***************************************************************************)
(* The filename policy on its own: one file candidate's stem (lines         *)
(* 530-539) and the path download_file opens for it (lines 426-438).        *)
(***************************************************************************)
MaxTextLen == 3

LongTextLen == 240

LongRootLen == 190

NameAlphabet == { "a", "Z", "7", " ", ".", "_", "-", "?" }

RECURSIVE StringsUpTo(_, _)
\* the strings over the characters A of length at most n
StringsUpTo(A, n) ==
    IF n = 0 THEN { "" }
    ELSE LET shorter == StringsUpTo(A, n - 1)
         IN  shorter \cup { t \o c : t \in { u \in shorter : Len(u) = n - 1 }, c \in A }

NameTexts == StringsUpTo(NameAlphabet, MaxTextLen) \cup { Repeat("n", LongTextLen) \o ".pdf" }

NameRoots == { DownloadFolder, Repeat("r", LongRootLen) }

NameExtensions == { "pdf", "docx", "bin" }

NameInit ==
    /\ PipeInit
    /\ sniff = IdleSniff
    /\ ExtractIdle
    /\ gui = IdleStage
    /\ naming \in [ stage : {"text"}, text : NameTexts, i : 0..(MaxItems - 1), root : NameRoots,
                    ext : NameExtensions, stem : {""}, path : {""} ]

\* lines 530-537: safe_filename
NameStem ==
    /\ naming.stage = "text"
    /\ naming' = [ naming EXCEPT !.stage = "stem", !.stem = SafeFilename(naming.text, naming.i) ]
    /\ UNCHANGED <<pipeVars, sniff, extractVars, gui>>

\* line 539 and download_file lines 426-438, for card 1 under <root>/documents
NamePath ==
    /\ naming.stage = "stem"
    /\ naming' = [ naming EXCEPT
                     !.stage = "path",
                     !.path = FilePath(OsPathJoin(naming.root, "documents"),
                                       FileFilenameBase(1, naming.text, naming.i), naming.ext) ]
    /\ UNCHANGED <<pipeVars, sniff, extractVars, gui>>

NameNext == NameStem \/ NamePath

SpecName == NameInit /\ [][NameNext]_vars

\* C7: the stem is non-empty and made of letters, digits, ' ', '.', '_', '-'.
C7_StemNonEmptyAndClean ==
    naming.stage \in {"stem", "path"}
        => /\ naming.stem # ""
           /\ \A k \in 1..Len(naming.stem) :
                 Ch(naming.stem, k) \in AlnumChars \cup {" ", ".", "_", "-"}

\* C8: the path opened is at most 255 characters long, and it is the folder, a
\* prefix of the stem-bearing base name, and the resolved extension intact.
C8_PathWithinLimit ==
    naming.stage = "path"
        => /\ Len(naming.path) <= 255
           /\ \E n \in 0..Len(FileFilenameBase(1, naming.text, naming.i)) :
                 naming.path = OsPathJoin(naming.root, "documents") \o "/"
                               \o SubSeq(FileFilenameBase(1, naming.text, naming.i), 1, n)
                               \o "." \o naming.ext

(***************************************************************************)
(* Card discovery of extract_card_data, lines 102-133, on its own: the      *)
(* page is given by what each selector matches and by the classes of its    *)
(* div elements; nodes are numbers.                                         *)
(***************************************************************************)
MaxDivs == 2

\* line 106-112
CardSelectors == << ".card", ".taskcard", "[data-card]", ".board-card", ".tc-card" >>

\* line 130
CardKeywords == { "card", "task", "item" }

\* what a selector may match on a page: nothing, one node or two
MatchSets(k) == { <<>>, <<10 * k>>, <<10 * k, 10 * k + 1>> }

DivClasses == { "", "menu", "Task-list", "q-item", "postcard big" }

Pages ==
    [ matches : { m \in [ 1..Len(CardSelectors) -> UNION { MatchSets(k) : k \in 1..Len(CardSelectors) } ] :
                    \A k \in 1..Len(CardSelectors) : m[k] \in MatchSets(k) },
      divs : SeqsUpTo(DivClasses, MaxDivs),
      raises : 0..(Len(CardSelectors) + 1) ]

RECURSIVE SelectorLoopLast(_, _)
\* the loop without its break: the last selector that matches wins
SelectorLoopLast(page, k) ==
    IF k > Len(CardSelectors) THEN [ cards |-> <<>>, raised |-> FALSE ]
    ELSE IF page.raises = k THEN [ cards |-> <<>>, raised |-> TRUE ]
    ELSE LET rest == SelectorLoopLast(page, k + 1)
         IN  IF rest.raised \/ rest.cards # <<>> \/ page.matches[k] = <<>> THEN rest
             ELSE [ cards |-> page.matches[k], raised |-> FALSE ]

RECURSIVE SelectorLoop(_, _)
\* lines 115-120, from selector k on: find_elements raises, or matches and the
\* loop breaks, or the next selector is tried
SelectorLoop(page, k) ==
    IF k > Len(CardSelectors) THEN [ cards |-> <<>>, raised |-> FALSE ]
    ELSE IF page.raises = k THEN [ cards |-> <<>>, raised |-> TRUE ]
    ELSE IF page.matches[k] # <<>> THEN [ cards |-> page.matches[k], raised |-> FALSE ]
    ELSE SelectorLoop(page, k + 1)

\* line 130
HasCardKeyword(class_name) == \E w \in CardKeywords : Contains(PyLower(class_name), w)

\* lines 124-131: the divs whose class has a keyword, as nodes 1, 2, ... in page order
DivScan(page) ==
    SelectSeq([ k \in 1..Len(page.divs) |-> k ], LAMBDA k : HasCardKeyword(page.divs[k]))

\* lines 114-133: the nodes the card loop will run over; an exception of a
\* driver call leaves extract_card_data through line 317 with no card at all
DiscoverCards(page) ==
    LET sel == SelectorLoop(page, 1)
    IN  IF sel.raised THEN [ cards |-> <<>>, raised |-> TRUE, scanned |-> FALSE ]
        ELSE IF sel.cards # <<>> THEN [ cards |-> sel.cards, raised |-> FALSE, scanned |-> FALSE ]
        ELSE IF page.raises = Len(CardSelectors) + 1
             THEN [ cards |-> <<>>, raised |-> TRUE, scanned |-> TRUE ]
             ELSE [ cards |-> DivScan(page), raised |-> FALSE, scanned |-> TRUE ]

DiscoverInit ==
    /\ PipeInit
    /\ sniff = IdleSniff
    /\ naming = IdleNaming
    /\ extraction = IdleStage /\ content = IdleStage /\ probes = IdleStage
    /\ gui = IdleStage
    /\ found \in [ stage : {"page"}, page : Pages,
                   out : { [ cards |-> <<>>, raised |-> FALSE, scanned |-> FALSE ] } ]

\* lines 105-133
Discover ==
    /\ found.stage = "page"
    /\ found' = [ found EXCEPT !.stage = "cards", !.out = DiscoverCards(found.page) ]
    /\ UNCHANGED <<pipeVars, sniff, naming, extraction, content, probes, gui>>

DiscoverNext == Discover

SpecDiscover == DiscoverInit /\ [][DiscoverNext]_vars

\* the selectors that match something on the page
Matching(page) == { k \in 1..Len(CardSelectors) : page.matches[k] # <<>> }

\* C16: when no driver call raised, the cards are the match set of the first
\* selector in list order that matches anything, and the div scan has not run;
\* if no selector matches, they are the divs with a keyword in their class, in
\* page order, and that may be none.
C16_FirstMatchingSelector ==
    (found.stage = "cards" /\ ~found.out.raised)
        => /\ \A k \in Matching(found.page) :
                 (\A j \in Matching(found.page) : k <= j)
                     => found.out.cards = found.page.matches[k] /\ ~found.out.scanned
           /\ Matching(found.page) = {}
                 => /\ found.out.scanned
                    /\ Len(found.out.cards) <= Len(found.page.divs)
                    /\ \A d \in 1..Len(found.page.divs) :
                          (d \in SeqToSet(found.out.cards))
                              <=> \E w \in {"card", "task", "item"} :
                                     Contains(PyLower(found.page.divs[d]), w)
                    /\ \A a \in 1..Len(found.out.cards) : \A b \in 1..Len(found.out.cards) :
                          a < b => found.out.cards[a] < found.out.cards[b]

\* the second and the fourth selector match, and the second one's nodes are taken
C16_Witness ==
    /\ found.stage = "cards"
    /\ ~found.out.raised
    /\ Matching(found.page) = {2, 4}
    /\ Len(found.out.cards) = 2
    /\ found.page.divs # <<>>

(***************************************************************************)
(* The card loop of extract_card_data, lines 135-315, on its own: each      *)
(* discovered node either yields its card or throws outside the inner       *)
(* handlers (reading innerHTML, line 143; a find_element of the title       *)
(* fallback raising other than NoSuchElement, line 160; card.text, 196).    *)
(***************************************************************************)
MaxNodes == 3

ThrowPoints == { "none", "innerHTML", "title", "text" }

NodeLists == SeqsUpTo([ name : {"a", "b"}, throws : ThrowPoints ], MaxNodes)

\* the id taken from the number of cards extracted so far
CardIdByCount(i, cards_data) == Len(cards_data) + 1

\* line 138: "id": i + 1, i the enumerate index
CardId(i, cards_data) == i + 1

CardsInit ==
    /\ PipeInit
    /\ sniff = IdleSniff
    /\ naming = IdleNaming
    /\ found = IdleStage /\ content = IdleStage /\ probes = IdleStage
    /\ gui = IdleStage
    /\ extraction \in [ stage : {"loop"}, nodes : NodeLists, i : {0}, cards_data : {<<>>},
                        errors : {0} ]

\* lines 135-315, one iteration: the card is appended (line 310), or the
\* exception is logged and the loop continues (lines 313-315)
ExtractCard ==
    /\ extraction.stage = "loop"
    /\ extraction.i < Len(extraction.nodes)
    /\ LET node == extraction.nodes[extraction.i + 1]
       IN  extraction' =
             IF node.throws = "none"
             THEN [ extraction EXCEPT
                      !.i = @ + 1,
                      !.cards_data = Append(@, [ id |-> CardId(extraction.i, extraction.cards_data),
                                                 node |-> node.name ]) ]
             ELSE [ extraction EXCEPT !.i = @ + 1, !.errors = @ + 1 ]
    /\ UNCHANGED <<pipeVars, sniff, naming, found, content, probes, gui>>

\* line 320
ExtractReturn ==
    /\ extraction.stage = "loop"
    /\ extraction.i = Len(extraction.nodes)
    /\ extraction' = [ extraction EXCEPT !.stage = "returned" ]
    /\ UNCHANGED <<pipeVars, sniff, naming, found, content, probes, gui>>

CardsNext == ExtractCard \/ ExtractReturn

SpecCards == CardsInit /\ [][CardsNext]_vars

\* C12: the list returned has a card for exactly the nodes that did not throw,
\* each with the id of its node's discovery position and made from that node, in
\* discovery order.
C12_OnlyThrowingCardMissing ==
    extraction.stage = "returned"
        => /\ \A p \in 1..Len(extraction.nodes) :
                 (extraction.nodes[p].throws = "none")
                     <=> \E c \in 1..Len(extraction.cards_data) : extraction.cards_data[c].id = p
           /\ \A c \in 1..Len(extraction.cards_data) :
                 /\ extraction.cards_data[c].id \in 1..Len(extraction.nodes)
                 /\ extraction.cards_data[c].node
                       = extraction.nodes[extraction.cards_data[c].id].name
           /\ \A a \in 1..Len(extraction.cards_data) : \A b \in 1..Len(extraction.cards_data) :
                 a < b => extraction.cards_data[a].id < extraction.cards_data[b].id

\* of three nodes the second threw and the list has been returned
C12_Witness ==
    /\ extraction.stage = "returned"
    /\ Len(extraction.nodes) = 3
    /\ extraction.nodes[1].throws = "none"
    /\ extraction.nodes[2].throws # "none"
    /\ extraction.nodes[3].throws = "none"
    /\ Len(extraction.cards_data) = 2

(***************************************************************************)
(* The file-candidate probes of one card node, lines 214-310, on their own. *)
(* The node is given by the elements each probe's find_elements returns,    *)
(* with the attributes and texts the probe reads, and by the driver call    *)
(* that raises, if one does.                                                *)
(***************************************************************************)
MaxContainers == 1

Whitespace == { " ", Ch("a\nb", 2), Ch("a\tb", 2) }

\* str.strip()
PyStrip(t) == Strip(t, Whitespace)

\* `x in s.lower()` for some x of exts
HasExtension(t, exts) == \E e \in exts : Contains(PyLower(t), e)

\* line 252
LabelExtensions == { ".pdf", ".pptx", ".docx" }

\* lines 260 and 265
DocExtensions == { ".pdf", ".pptx", ".docx", ".xlsx" }

\* line 285
ItemExtensions == { ".pptx", ".pdf", ".docx" }

\* lines 217-226
LinkCandidates(links) ==
    LET kept == SelectSeq(links, LAMBDA a : Truthy(a.href) /\ (StartsWith(a.href, "http")
                                                               \/ StartsWith(a.href, "/")))
    IN  [ k \in 1..Len(kept) |->
            [ url |-> kept[k].href, text |-> PyStrip(kept[k].text), type |-> TypeLink ] ]

\* lines 229-241
ButtonCandidates(buttons) ==
    LET kept == SelectSeq(buttons, LAMBDA b : b.data_url # "" \/ b.onclick # "")
    IN  [ k \in 1..Len(kept) |->
            [ url |-> IF kept[k].data_url # "" THEN kept[k].data_url
                      ELSE "javascript:" \o kept[k].onclick,
              text |-> IF kept[k].title # "" THEN kept[k].title ELSE PyStrip(kept[k].text),
              type |-> TypeAttachment ] ]

\* lines 257-262: the first sibling text with a document extension, else "attachment"
SiblingFilename(texts) ==
    LET hits == { k \in 1..Len(texts) :
                    PyStrip(texts[k]) # "" /\ HasExtension(PyStrip(texts[k]), DocExtensions) }
    IN  IF hits = {} THEN "attachment" ELSE PyStrip(texts[Min(hits)])

\* line 252
LabelNamesDocument(aria) == aria # "" /\ HasExtension(aria, LabelExtensions)

\* lines 248-262
ContainerFilename(c) ==
    IF LabelNamesDocument(c.aria) THEN c.aria ELSE SiblingFilename(c.siblings)

\* lines 245-274: the parent lookup of line 256 may raise, which drops the container
ContainerCandidates(containers) ==
    LET kept == SelectSeq(containers,
                          LAMBDA c : /\ LabelNamesDocument(c.aria) \/ ~c.raises
                                     /\ ContainerFilename(c) # "attachment"
                                     /\ HasExtension(ContainerFilename(c), DocExtensions))
    IN  [ k \in 1..Len(kept) |->
            [ url |-> "", text |-> ContainerFilename(kept[k]), type |-> TypePdfContainer ] ]

\* lines 277-293
ItemCandidates(items) ==
    LET kept == SelectSeq(items, LAMBDA it : /\ ~it.raises
                                             /\ it.label # PyNone
                                             /\ PyStrip(it.label) # ""
                                             /\ HasExtension(PyStrip(it.label), ItemExtensions))
    IN  [ k \in 1..Len(kept) |->
            [ url |-> "", text |-> PyStrip(kept[k].label), type |-> TypeListItem ] ]

\* line 301: next(attr for attr in data_attrs if attr)
FirstTruthy(attrs) == attrs[Min({ k \in 1..Len(attrs) : attrs[k] # "" })]

\* lines 296-305
ClickableCandidates(clickables) ==
    LET kept == SelectSeq(clickables, LAMBDA e : \E k \in 1..Len(e.attrs) : e.attrs[k] # "")
    IN  [ k \in 1..Len(kept) |->
            [ url |-> FirstTruthy(kept[k].attrs),
              text |-> IF PyStrip(kept[k].text) # "" THEN PyStrip(kept[k].text)
                       ELSE "File attachment",
              type |-> TypeClickable ] ]

\* the candidates of probe k, the k-th of lines 217, 229, 244, 277, 296
ProbeCandidates(k, els) ==
    CASE k = 1 -> LinkCandidates(els)
      [] k = 2 -> ButtonCandidates(els)
      [] k = 3 -> ContainerCandidates(els)
      [] k = 4 -> ItemCandidates(els)
      [] k = 5 -> ClickableCandidates(els)

ProbeTypes == << TypeLink, TypeAttachment, TypePdfContainer, TypeListItem, TypeClickable >>

LinkLists ==
    { <<>>,
      << [ href |-> "http://h/a.pdf", text |-> " notes.pdf " ] >>,
      << [ href |-> "/f/b.pdf", text |-> "b" ], [ href |-> "#top", text |-> "up" ],
         [ href |-> PyNone, text |-> "" ] >> }

ButtonLists ==
    { <<>>,
      << [ onclick |-> "", data_url |-> "http://h/d", title |-> "Datei", text |-> "" ],
         [ onclick |-> "open(1)", data_url |-> "", title |-> "", text |-> " file " ],
         [ onclick |-> "", data_url |-> "", title |-> "file", text |-> "" ] >> }

Containers ==
    [ aria : { "", "Plan.PDF", "Budget.xlsx", "photo" },
      siblings : { <<>>, << " ", "Deck.pptx " >>, << "sheet.XLSX" >> },
      raises : BOOLEAN ]

ItemLists ==
    { <<>>,
      << [ label |-> " Deck.PPTX ", raises |-> FALSE ] >>,
      << [ label |-> "t.xlsx", raises |-> FALSE ], [ label |-> PyNone, raises |-> FALSE ] >>,
      << [ label |-> "a.pdf", raises |-> TRUE ] >> }

ClickableLists ==
    { <<>>,
      << [ attrs |-> << "", "/dl/7", "/dl/8" >>, text |-> " " ],
         [ attrs |-> << "", "", "" >>, text |-> "menu" ] >> }

\* the driver call that raises outside a per-element handler: none (probe 0), the
\* find_elements of a probe (after 0), or an attribute read on the second
\* element of a probe whose loop has no handler of its own (after 1)
Throws ==
    { [ probe |-> 0, after |-> 0 ] }
    \cup { [ probe |-> k, after |-> 0 ] : k \in 1..5 }
    \cup { [ probe |-> k, after |-> 1 ] : k \in {1, 2, 5} }

ProbesInit ==
    /\ PipeInit
    /\ sniff = IdleSniff
    /\ naming = IdleNaming
    /\ found = IdleStage /\ extraction = IdleStage /\ content = IdleStage
    /\ gui = IdleStage
    /\ \E l \in LinkLists, b \in ButtonLists, c \in SeqsUpTo(Containers, MaxContainers),
          it \in ItemLists, e \in ClickableLists, t \in Throws :
          probes = [ stage |-> 1, dom |-> << l, b, c, it, e >>, throw |-> t, files |-> <<>>,
                     warned |-> FALSE ]

\* probe k runs: its candidates are appended to the card's files; if a driver
\* call raises in it, the candidates of the elements before that call stay, the
\* handler of lines 307-308 logs a warning, and the card is appended (line 310)
RunProbe(k) ==
    LET els    == probes.dom[k]
        raised == /\ probes.throw.probe = k
                  /\ probes.throw.after = 0 \/ Len(els) > probes.throw.after
        seen   == IF raised THEN SubSeq(els, 1, probes.throw.after) ELSE els
    IN  /\ probes' = [ probes EXCEPT !.files = @ \o ProbeCandidates(k, seen),
                                     !.stage = IF raised \/ k = 5 THEN 6 ELSE k + 1,
                                     !.warned = raised ]
        /\ UNCHANGED <<pipeVars, sniff, naming, found, extraction, content, gui>>

\* lines 217-226
ProbeLinks == probes.stage = 1 /\ RunProbe(1)

\* lines 229-241
ProbeButtons == probes.stage = 2 /\ RunProbe(2)

\* lines 244-274
ProbeContainers == probes.stage = 3 /\ RunProbe(3)

\* lines 277-293
ProbeItems == probes.stage = 4 /\ RunProbe(4)

\* lines 296-305
ProbeClickables == probes.stage = 5 /\ RunProbe(5)

ProbesNext == ProbeLinks \/ ProbeButtons \/ ProbeContainers \/ ProbeItems \/ ProbeClickables

SpecProbes == ProbesInit /\ [][ProbesNext]_vars

\* the candidates in the card's files that came from probe k
FilesOfProbe(k) == SelectSeq(probes.files, LAMBDA f : f.type = ProbeTypes[k])

\* C13: when the card is appended, every probe other than the one in which a
\* driver call raised has contributed all its candidates.
C13_OtherProbesStillRun ==
    probes.stage = 6
        => \A k \in 1..5 :
              k # probes.throw.probe => FilesOfProbe(k) = ProbeCandidates(k, probes.dom[k])

\* the name by which a container counts as a document: its label if that has one
\* of the four extensions, else the first sibling text that has one, else none
DocumentName(c) ==
    IF c.aria # "" /\ \E e \in {".pdf", ".pptx", ".docx", ".xlsx"} : Contains(PyLower(c.aria), e)
    THEN c.aria
    ELSE IF c.raises THEN PyNone
    ELSE LET hits == { k \in 1..Len(c.siblings) :
                         \E e \in {".pdf", ".pptx", ".docx", ".xlsx"} :
                            Contains(PyLower(c.siblings[k]), e) }
         IN  IF hits = {} THEN PyNone ELSE PyStrip(c.siblings[Min(hits)])

\* C20: when the container probe has run, the card's preview-container
\* candidates are those of the containers that have a document name, in order,
\* each with empty URL and that name as its text.
C20_ContainerKeptIffDocumentName ==
    (probes.stage > 3 /\ ~(probes.warned /\ probes.throw.probe <= 3))
        => LET named == SelectSeq(probes.dom[3], LAMBDA c : DocumentName(c) # PyNone)
           IN  FilesOfProbe(3) = [ k \in 1..Len(named) |->
                                     [ url |-> "", text |-> DocumentName(named[k]),
                                       type |-> TypePdfContainer ] ]

(***************************************************************************)
(* Title and description of one card node, lines 146-202, on their own.     *)
(* The node is given by the texts of the elements each lookup returns and   *)
(* by its own visible text.                                                 *)
(***************************************************************************)
NewLine == Ch("a\nb", 2)

RECURSIVE JoinWith(_, _)
\* sep.join(parts)
JoinWith(parts, sep) ==
    IF parts = <<>> THEN ""
    ELSE IF Len(parts) = 1 THEN parts[1]
    ELSE parts[1] \o sep \o JoinWith(Tail(parts), sep)

RECURSIVE Split(_, _)
\* t.split(c) for a single character c
Split(t, c) ==
    LET hits == { k \in 1..Len(t) : Ch(t, k) = c }
    IN  IF hits = {} THEN << t >>
        ELSE << SubSeq(t, 1, Min(hits) - 1) >> \o Split(SubSeq(t, Min(hits) + 1, Len(t)), c)

\* the stripped texts that are not blank, in order
StrippedNonBlank(texts) ==
    LET kept == SelectSeq(texts, LAMBDA t : PyStrip(t) # "")
    IN  [ k \in 1..Len(kept) |-> PyStrip(kept[k]) ]

\* lines 147-153: the first header contenteditable; a raising lookup is swallowed
TitleFromHeader(header) ==
    IF header = PyNone \/ header = <<>> THEN "" ELSE PyStrip(header[1])

\* lines 156-164: the first title selector that finds an element ends the loop,
\* whatever its text
TitleFallback(headings) ==
    LET present == { k \in 1..Len(headings) : headings[k] # PyNone }
    IN  IF present = {} THEN "" ELSE PyStrip(headings[Min(present)])

\* lines 167-179
DescriptionFromEditable(editable) ==
    IF editable = <<>> THEN "" ELSE JoinWith(StrippedNonBlank(editable), NewLine)

\* lines 182-192: the first content selector whose joined text is not empty
DescriptionFallback(paragraphs) ==
    LET texts == [ k \in 1..Len(paragraphs) |-> JoinWith(StrippedNonBlank(paragraphs[k]), " ") ]
        hits  == { k \in 1..Len(texts) : texts[k] # "" }
    IN  IF hits = {} THEN "" ELSE texts[Min(hits)]

\* a filter that keeps every line
KeepLineAlways(line) == TRUE

\* line 198: `if line.strip()`
KeepLine(line) == PyStrip(line) # ""

\* line 198
TextLines(all_text) ==
    LET kept == SelectSeq(Split(all_text, NewLine), KeepLine)
    IN  [ k \in 1..Len(kept) |-> PyStrip(kept[k]) ]

ContentNodes ==
    [ header : { PyNone, <<>>, << "" >>, << " Plan " >> },
      headings : { << PyNone, PyNone, PyNone, PyNone, PyNone, PyNone >>,
                   << "", PyNone, "Head", PyNone, PyNone, PyNone >>,
                   << PyNone, " Head", PyNone, PyNone, PyNone, PyNone >> },
      editable : { <<>>, << "  " >>, << "a", " b " >> },
      paragraphs : { << <<>>, <<>>, <<>>, <<>>, <<>>, <<>> >>,
                     << << " " >>, <<>>, << "x ", " ", "y" >>, <<>>, <<>>, << "z" >> >> },
      text : { "", " " \o NewLine \o " ", "One",
               " One " \o NewLine \o NewLine \o " Two " \o NewLine \o "Three ",
               NewLine \o " a" } ]

ContentInit ==
    /\ PipeInit
    /\ sniff = IdleSniff
    /\ naming = IdleNaming
    /\ found = IdleStage /\ extraction = IdleStage /\ probes = IdleStage
    /\ gui = IdleStage
    /\ content \in [ stage : {"node"}, node : ContentNodes, title : {""}, description : {""},
                     chains : { [ title |-> "", description |-> "" ] } ]

\* lines 146-164
ExtractTitle ==
    /\ content.stage = "node"
    /\ content' = [ content EXCEPT
                      !.stage = "title",
                      !.title = IF TitleFromHeader(content.node.header) # ""
                                THEN TitleFromHeader(content.node.header)
                                ELSE TitleFallback(content.node.headings) ]
    /\ UNCHANGED <<pipeVars, sniff, naming, found, extraction, probes, gui>>

\* lines 166-192
ExtractDescription ==
    /\ content.stage = "title"
    /\ LET d == IF DescriptionFromEditable(content.node.editable) # ""
                THEN DescriptionFromEditable(content.node.editable)
                ELSE DescriptionFallback(content.node.paragraphs)
       IN  content' = [ content EXCEPT
                          !.stage = "description",
                          !.description = d,
                          !.chains = [ title |-> content.title, description |-> d ] ]
    /\ UNCHANGED <<pipeVars, sniff, naming, found, extraction, probes, gui>>

\* lines 194-202
TextFallback ==
    /\ content.stage = "description"
    /\ LET lines == TextLines(PyStrip(content.node.text))
       IN  content' =
             IF content.title = "" /\ content.description = "" /\ PyStrip(content.node.text) # ""
                /\ lines # <<>>
             THEN [ content EXCEPT
                      !.stage = "done",
                      !.title = lines[1],
                      !.description = IF Len(lines) > 1 THEN JoinWith(Tail(lines), NewLine) ELSE @ ]
             ELSE [ content EXCEPT !.stage = "done" ]
    /\ UNCHANGED <<pipeVars, sniff, naming, found, extraction, probes, gui>>

ContentNext == ExtractTitle \/ ExtractDescription \/ TextFallback

SpecContent == ContentInit /\ [][ContentNext]_vars

\* the lines of the node's text that have a character other than white space,
\* without the white space around them
NonBlankLines(t) ==
    LET all  == Split(t, NewLine)
        kept == SelectSeq(all, LAMBDA l : \E k \in 1..Len(l) : Ch(l, k) \notin Whitespace)
    IN  [ k \in 1..Len(kept) |-> Strip(kept[k], Whitespace) ]

\* C18: a card whose node has visible text has a title or a description; and
\* when neither chain found anything, the title is the first non-blank line of
\* the node's text and the description the remaining non-blank lines.
C18_ContentGuarantee ==
    content.stage = "done"
        => /\ NonBlankLines(content.node.text) # <<>>
                 => (content.title # "" \/ content.description # "")
           /\ (content.chains.title = "" /\ content.chains.description = ""
               /\ NonBlankLines(content.node.text) # <<>>)
                 => /\ content.title = NonBlankLines(content.node.text)[1]
                    /\ content.description
                          = JoinWith(Tail(NonBlankLines(content.node.text)), NewLine)

\* both chains came up empty on a node whose text has a blank line between others
C18_Witness ==
    /\ content.stage = "done"
    /\ content.chains.title = ""
    /\ content.chains.description = ""
    /\ Len(Split(content.node.text, NewLine)) = 4
    /\ content.title = "One"
    /\ content.description # ""

(***************************************************************************)
(* The front end of src/taskcard_gui.py: the two buttons, the status line,  *)
(* the worker threads and the callbacks they hand to the main loop.  A      *)
(* worker is one call of download_worker; what TaskCardDownloader.run does  *)
(* inside it is a number of steps and a result.                             *)
(***************************************************************************)
MaxRuns == 2
MaxSteps == 2

StatusReady    == "Bereit"
StatusRunning  == "Download laeuft..."            \* line 178, a-umlaut written ae
StatusStopping == "Download wird gestoppt..."
StatusSuccess  == "Download erfolgreich abgeschlossen!"
StatusFailed   == "Download fehlgeschlagen"

GuiUrls    == { "", "ftp://b", "http://b" }
GuiFolders == { " ", "out" }

\* validate_input, lines 138-162; makedirs_ok is whether os.makedirs succeeded
validate_input(url, folder, makedirs_ok) ==
    /\ PyStrip(url) # ""
    /\ StartsWith(PyStrip(url), "http://") \/ StartsWith(PyStrip(url), "https://")
    /\ PyStrip(folder) # ""
    /\ makedirs_ok

\* a button that runs its command in either state
ButtonAcceptsAlways(state) == state \in { "normal", "disabled" }

\* a ttk button runs its command only when it is not disabled
ButtonAccepts(state) == state = "normal"

NoWorker == [ phase |-> "none", step |-> 0, outcome |-> "none" ]

\* the workers that have been started and have not yet handed over a callback
InFlight(g) == { w \in 1..MaxRuns : g.workers[w].phase = "running" }

\* a stop that also ends the running workers
StopEffectInterrupts(g) ==
    [ g EXCEPT !.status = StatusStopping,
               !.is_downloading = FALSE,
               !.workers = [ w \in 1..MaxRuns |->
                               IF g.workers[w].phase = "running"
                               THEN [ g.workers[w] EXCEPT !.phase = "ended" ]
                               ELSE g.workers[w] ] ]

\* lines 190-191
StopEffect(g) == [ g EXCEPT !.status = StatusStopping, !.is_downloading = FALSE ]

GuiInit ==
    /\ PipeInit
    /\ sniff = IdleSniff
    /\ naming = IdleNaming
    /\ ExtractIdle
    /\ gui = [ stage |-> "ui",
               url |-> "", folder |-> "out",
               is_downloading |-> FALSE,
               download_button |-> "normal",
               stop_button |-> "disabled",
               progress |-> FALSE,
               status |-> StatusReady,
               dialog |-> "none",
               workers |-> [ w \in 1..MaxRuns |-> NoWorker ],
               after |-> <<>> ]

\* the user edits the URL or the folder entry (lines 22-23, 47, 56)
EditInput ==
    /\ gui.stage = "ui"
    /\ \E u \in GuiUrls, f \in GuiFolders :
         /\ <<u, f>> # <<gui.url, gui.folder>>
         /\ gui' = [ gui EXCEPT !.url = u, !.folder = f ]
    /\ UNCHANGED <<pipeVars, sniff, naming, extractVars>>

\* start_download, lines 164-185, on a click of the download button
start_download ==
    /\ gui.stage = "ui"
    /\ ButtonAccepts(gui.download_button)
    /\ \E makedirs_ok \in BOOLEAN :
         LET started == { w \in 1..MaxRuns : gui.workers[w].phase # "none" }
             next    == Cardinality(started) + 1
         IN  IF ~ validate_input(gui.url, gui.folder, makedirs_ok)
             THEN gui' = [ gui EXCEPT !.dialog = "showerror input" ]
             ELSE IF gui.is_downloading
             THEN gui' = [ gui EXCEPT !.dialog = "showwarning running" ]
             ELSE /\ next <= MaxRuns
                  /\ gui' = [ gui EXCEPT
                                !.is_downloading = TRUE,
                                !.download_button = "disabled",
                                !.stop_button = "normal",
                                !.progress = TRUE,
                                !.status = StatusRunning,
                                !.workers[next] = [ phase |-> "running", step |-> 0,
                                                    outcome |-> "none" ] ]
    /\ UNCHANGED <<pipeVars, sniff, naming, extractVars>>

\* stop_download, lines 187-193, on a click of the stop button
stop_download ==
    /\ gui.stage = "ui"
    /\ ButtonAccepts(gui.stop_button)
    /\ gui.is_downloading
    /\ gui' = StopEffect(gui)
    /\ UNCHANGED <<pipeVars, sniff, naming, extractVars>>

\* download_worker inside downloader.run(), line 213: one more step of the pipeline
WorkerStep(w) ==
    /\ gui.stage = "ui"
    /\ gui.workers[w].phase = "running"
    /\ gui.workers[w].step < MaxSteps
    /\ gui' = [ gui EXCEPT !.workers[w].step = @ + 1 ]
    /\ UNCHANGED <<pipeVars, sniff, naming, extractVars>>

\* download_worker, lines 213-219: run() returns True or False, or something in
\* the worker raises; the matching callback goes to the main loop
WorkerReturn(w) ==
    /\ gui.stage = "ui"
    /\ gui.workers[w].phase = "running"
    /\ \E outcome \in { "success", "failure", "raised" } :
         gui' = [ gui EXCEPT
                    !.workers[w] = [ phase |-> "returned", step |-> gui.workers[w].step,
                                     outcome |-> outcome ],
                    !.after = Append(@, [ worker |-> w,
                                          callback |-> IF outcome = "raised"
                                                       THEN "download_error"
                                                       ELSE "download_completed",
                                          success |-> outcome = "success" ]) ]
    /\ UNCHANGED <<pipeVars, sniff, naming, extractVars>>

\* download_completed, lines 221-234, run by the main loop
download_completed ==
    /\ gui.stage = "ui"
    /\ gui.after # <<>>
    /\ Head(gui.after).callback = "download_completed"
    /\ gui' = [ gui EXCEPT
                  !.after = Tail(@),
                  !.is_downloading = FALSE,
                  !.download_button = "normal",
                  !.stop_button = "disabled",
                  !.progress = FALSE,
                  !.status = IF Head(gui.after).success THEN StatusSuccess ELSE StatusFailed,
                  !.dialog = IF Head(gui.after).success THEN "showinfo success"
                             ELSE "showerror failed",
                  !.workers[Head(gui.after).worker].phase = "reported" ]
    /\ UNCHANGED <<pipeVars, sniff, naming, extractVars>>

\* download_error, lines 236-244, run by the main loop
download_error ==
    /\ gui.stage = "ui"
    /\ gui.after # <<>>
    /\ Head(gui.after).callback = "download_error"
    /\ gui' = [ gui EXCEPT
                  !.after = Tail(@),
                  !.is_downloading = FALSE,
                  !.download_button = "normal",
                  !.stop_button = "disabled",
                  !.progress = FALSE,
                  !.status = StatusFailed,
                  !.dialog = "showerror raised",
                  !.workers[Head(gui.after).worker].phase = "reported" ]
    /\ UNCHANGED <<pipeVars, sniff, naming, extractVars>>

WorkerProgress == \E w \in 1..MaxRuns : WorkerStep(w)

WorkerEnd == \E w \in 1..MaxRuns : WorkerReturn(w)

GuiNext ==
    \/ EditInput
    \/ start_download
    \/ stop_download
    \/ WorkerProgress
    \/ WorkerEnd
    \/ download_completed
    \/ download_error

SpecGui == GuiInit /\ [][GuiNext]_vars

\* a started thread runs until its target returns, and the main loop runs the
\* callbacks handed to root.after(0, ...)
SpecGuiFair ==
    /\ SpecGui
    /\ WF_vars(WorkerEnd)
    /\ WF_vars(download_completed)
    /\ WF_vars(download_error)

\* the status line and dialog that belong to a worker's result
StatusOf(outcome) == IF outcome = "success" THEN StatusSuccess ELSE StatusFailed

\* a step in which the status line turns to "wird gestoppt"
StopStep == gui.status # StatusStopping /\ gui'.status = StatusStopping

\* a step in which the main loop runs a worker's callback
ReportStep == Len(gui'.after) < Len(gui.after)

C19_Step ==
    /\ (StopStep /\ InFlight(gui) # {}) =>
         /\ \A field \in DOMAIN gui \ { "status", "is_downloading" } :
              gui'[field] = gui[field]
         /\ gui'.is_downloading = FALSE
         /\ InFlight(gui') = InFlight(gui)
    /\ ReportStep =>
         LET w == Head(gui.after).worker
         IN  /\ gui'.status = StatusOf(gui.workers[w].outcome)
             /\ gui'.dialog = ( IF gui.workers[w].outcome = "success" THEN "showinfo success"
                                ELSE IF gui.workers[w].outcome = "failure" THEN "showerror failed"
                                ELSE "showerror raised" )
             /\ gui'.is_downloading = FALSE
             /\ gui'.download_button = "normal"
             /\ gui'.stop_button = "disabled"
             /\ gui'.progress = FALSE

\* C19: a stop request during a run changes only the status flag and the status
\* text and leaves the worker running; the worker goes on to return, and its
\* callback then shows the run's own result and resets the controls.
C19_StopIsNotInterrupt ==
    /\ [][C19_Step]_vars
    /\ \A w \in 1..MaxRuns :
         (gui.stage = "ui" /\ gui.status = StatusStopping /\ gui.workers[w].phase = "running")
            ~> ( /\ gui.workers[w].phase = "reported"
                 /\ gui.status = StatusOf(gui.workers[w].outcome)
                 /\ gui.download_button = "normal" )

\* a stop was requested while a worker was midway through the pipeline, and the
\* worker has since returned a success that the main loop has yet to show
C19_Witness ==
    /\ gui.stage = "ui"
    /\ gui.status = StatusStopping
    /\ ~ gui.is_downloading
    /\ gui.download_button = "disabled"
    /\ gui.after # <<>>
    /\ Head(gui.after).success
    /\ gui.workers[Head(gui.after).worker].step = MaxSteps

\* C24: whatever the clicks on the two buttons and the workers' returns, at most
\* one worker is running the pipeline at a time, also after a stop request has
\* cleared the flag while its worker is still running.
C24_SingleWorker ==
    gui.stage = "ui" => Cardinality(InFlight(gui)) <= 1

\* a second run, started after the first was reported, has been asked to stop
\* and its worker is still running
C24_Witness ==
    /\ gui.stage = "ui"
    /\ gui.workers[1].phase = "reported"
    /\ InFlight(gui) = {2}
    /\ gui.status = StatusStopping
    /\ ~ gui.is_downloading

====
